---- MODULE Spec2Model ----
(***************************************************************************)
(* Model of the two FastAPI blog services of FastAPI-ML:                   *)
(*   backend/app.py   query-builder variant (databases + SQLAlchemy core)  *)
(*   tortoise/app.py  ORM variant (Tortoise ORM)                           *)
(* Both servers are driven by the same HTTP requests.  Each server owns    *)
(* its own SQLite store (tables posts and comments).                       *)
(***************************************************************************)
EXTENDS Integers, Sequences, FiniteSets, TLC

VARIABLES
    db,        \* db[v]: the stored tables and id sequences of server v
    request,   \* the last HTTP request sent (to both servers)
    response,  \* response[v]: server v's answer to that request
    page,      \* page[v]: what the pagination dependency returned for it
    issued,    \* issued[v]: the post and comment ids storage has handed out
    inflight   \* requests being handled concurrently (interleaved runs)

vars == <<db, request, response, page, issued, inflight>>

(***************************************************************************)
(* Bounds and input domains                                                *)
(***************************************************************************)
MaxPosts == 2
MaxComments == 2
MaxSkip == 2
MaxLimit == 102
MaxInflight == 2
MaxRacedPosts == 1

Variants == {"backend", "tortoise"}
Titles == {"A", "B"}
Contents == {"x", "y"}
CommentContents == {"c"}
Dates == {"d1", "d2"}
Unset == "unset"
Now == "d2"
PostIds == 1..(MaxPosts + 1)

(***************************************************************************)
(* Pydantic schemas (tortoise/models.py; backend/app.py imports the same   *)
(* names from its own models module)                                       *)
(***************************************************************************)
\* PostDB: PostBase (title, content, publication_date) plus id
PostDB == {"id", "title", "content", "publication_date"}

\* PostPublic: PostDB plus comments
PostPublic == PostDB \cup {"comments"}

\* CommentDB: CommentBase (post_id, publication_date, content) plus id
CommentDB == {"id", "post_id", "content", "publication_date"}

\* Model.from_orm(obj) / Model(**row): keep the schema's fields of the object
from_orm(schema, obj) == [f \in schema \cap DOMAIN obj |-> obj[f]]

\* FastAPI response_model: the returned object is serialised through the
\* declared model, so only that model's fields reach the client
response_model(schema, obj) == [f \in schema \cap DOMAIN obj |-> obj[f]]

\* publication_date: datetime = Field(default_factory=datetime.now)
default_factory(body, now) ==
    IF body.publication_date = Unset THEN now ELSE body.publication_date

\* PostCreate(**body).dict()
PostCreate(body, now) ==
    [title |-> body.title, content |-> body.content,
     publication_date |-> default_factory(body, now)]

\* CommentCreate / CommentBase (**body).dict()
CommentCreate(body, now) ==
    [post_id |-> body.post_id, content |-> body.content,
     publication_date |-> default_factory(body, now)]

\* .dict() without exclude_unset: the fields the body omits come out as None
PostPartialUpdate_dict(body) ==
    [f \in {"title", "content"} |-> IF f \in DOMAIN body THEN body[f] ELSE "None"]

\* PostPartialUpdate(**body).dict(exclude_unset=True): only the fields the
\* body carries
PostPartialUpdate(body) == body

(***************************************************************************)
(* Responses                                                               *)
(***************************************************************************)
HTTPException(code, detail) ==
    [status |-> code, body |-> [kind |-> "error", value |-> detail]]

JSON(code, kind, value) ==
    [status |-> code, body |-> [kind |-> kind, value |-> value]]

NoContent == [status |-> 204, body |-> [kind |-> "empty", value |-> ""]]

(***************************************************************************)
(* Routing: the path of each route decorator, as tokens, matched against   *)
(* the request path the way the compiled path regex is                     *)
(***************************************************************************)
Lit(s) == [kind |-> "lit", s |-> s, n |-> 0]
Param(s) == [kind |-> "param", s |-> s, n |-> 0]
Seg(n) == [kind |-> "seg", s |-> "", n |-> n]
Slash == Lit("/")

Route(method, path, endpoint) ==
    [method |-> method, path |-> path, endpoint |-> endpoint]

\* backend/app.py: the decorators in declaration order; the path of get_posts
\* is written "posts/{id}", without the leading slash
routes_backend ==
    << Route("GET", <<Slash, Lit("posts")>>, "list_posts"),
       Route("GET", <<Lit("posts"), Slash, Param("id")>>, "get_posts"),
       Route("POST", <<Slash, Lit("posts")>>, "create_post"),
       Route("PATCH", <<Slash, Lit("posts"), Slash, Param("id")>>, "update_post"),
       Route("DELETE", <<Slash, Lit("posts"), Slash, Param("id")>>, "delete_post"),
       Route("POST", <<Slash, Lit("comments")>>, "create_comment") >>

\* tortoise/app.py: the decorators in declaration order
routes_tortoise ==
    << Route("GET", <<Slash, Lit("posts")>>, "list_posts"),
       Route("GET", <<Slash, Lit("posts"), Slash, Param("id")>>, "get_post"),
       Route("POST", <<Slash, Lit("posts")>>, "create_post"),
       Route("PATCH", <<Slash, Lit("posts"), Slash, Param("id")>>, "update_post"),
       Route("DELETE", <<Slash, Lit("posts"), Slash, Param("id")>>, "delete_post"),
       Route("POST", <<Slash, Lit("comments")>>, "create_comment") >>

routes(v) == IF v = "backend" THEN routes_backend ELSE routes_tortoise

\* a path parameter matches one path segment ([^/]+); anything else literally
path_matches(pattern, path) ==
    /\ Len(pattern) = Len(path)
    /\ \A i \in 1..Len(pattern) :
          IF pattern[i].kind = "param" THEN path[i] # Slash
          ELSE pattern[i] = path[i]

\* the router: the first route matching path and method; failing that 405
\* when some route matches the path alone, else 404.  A request path always
\* starts with "/"
dispatch(rs, method, path) ==
    LET full == {i \in 1..Len(rs) :
                    path_matches(rs[i].path, path) /\ rs[i].method = method}
        partial == {i \in 1..Len(rs) : path_matches(rs[i].path, path)}
    IN  IF full # {}
        THEN rs[CHOOSE i \in full : \A j \in full : i <= j].endpoint
        ELSE IF partial # {} THEN "405" ELSE "404"

(***************************************************************************)
(* Storage: one SQLite store per server                                    *)
(***************************************************************************)
EmptyDB == [posts |-> {}, comments |-> {}, post_seq |-> 0, comment_seq |-> 0]

Max(a, b) == IF a >= b THEN a ELSE b
Min(a, b) == IF a <= b THEN a ELSE b

\* rows in storage's default order (ascending rowid = id)
RECURSIVE SeqById(_)
SeqById(rows) ==
    IF rows = {} THEN <<>>
    ELSE LET first == CHOOSE r \in rows : \A q \in rows : r.id <= q.id
         IN  <<first>> \o SeqById(rows \ {first})

\* .offset(skip).limit(limit)
offset_limit(rows, skip, limit) ==
    LET all == SeqById(rows)
    IN  SubSeq(all, skip + 1, Min(Len(all), skip + limit))

\* a key without AUTOINCREMENT: one past the largest id now in the table
generated_id_max_rowid(rows, seq) ==
    IF rows = {} THEN 1
    ELSE (CHOOSE r \in rows : \A q \in rows : r.id >= q.id).id + 1

\* id = fields.IntField(pk=True, generated=True): an AUTOINCREMENT key, one
\* past the largest id the table ever held
generated_id(rows, seq) == seq + 1

\* the id column of the backend's posts and comments tables: assigned by
\* storage on creation, never reused
autoincrement(rows, seq) == seq + 1

\* INSERT into posts
insert_post(d, values, id) ==
    [d EXCEPT !.posts = @ \cup {[id |-> id, title |-> values.title,
                                 content |-> values.content,
                                 publication_date |-> values.publication_date]},
              !.post_seq = Max(@, id)]

\* INSERT into comments
insert_comment(d, values, id) ==
    [d EXCEPT !.comments = @ \cup {[id |-> id, post_id |-> values.post_id,
                                    content |-> values.content,
                                    publication_date |-> values.publication_date]},
              !.comment_seq = Max(@, id)]

\* UPDATE posts SET <values> WHERE id = id: the columns named in values
update_values(d, id, values) ==
    [d EXCEPT !.posts =
        {IF p.id = id
         THEN [f \in DOMAIN p |-> IF f \in DOMAIN values THEN values[f] ELSE p[f]]
         ELSE p : p \in @}]

\* DELETE FROM posts WHERE id = id; SQLite's foreign keys are off unless the
\* connection turns them on, and backend/database.py does not
delete_row(d, id) == [d EXCEPT !.posts = {p \in @ : p.id # id}]

\* post = ForeignKeyField("models.PostTortoise", related_name="comments"):
\* on_delete defaults to CASCADE, and the ORM's SQLite connection enforces it
delete_cascade(d, id) ==
    [d EXCEPT !.posts = {p \in @ : p.id # id},
              !.comments = {c \in @ : c.post_id # id}]

Out(d, resp) == [db |-> d, resp |-> resp]

(***************************************************************************)
(* backend/app.py                                                          *)
(***************************************************************************)
\* Query(.., ge=0)
Query_ge0(x) == x >= 0

\* pagination without the cap
pagination_uncapped(skip, limit) == <<skip, limit>>

pagination_backend(skip, limit) ==
    LET capped_limit == Min(100, limit) IN <<skip, capped_limit>>

get_post_or_404_backend(d, id) ==
    IF \A p \in d.posts : p.id # id
    THEN [found |-> FALSE, post |-> [id |-> id]]
    ELSE LET raw_post == CHOOSE p \in d.posts : p.id = id
             raw_comments == {c \in d.comments : c.post_id = id}
             comments_list == SeqById({from_orm(CommentDB, c) : c \in raw_comments})
         IN  [found |-> TRUE,
              post |-> [f \in PostPublic |->
                           IF f = "comments" THEN comments_list ELSE raw_post[f]]]

list_posts_backend(d, pagination) ==
    LET skip == pagination[1]
        limit == pagination[2]
        rows == offset_limit(d.posts, skip, limit)
        results == [i \in 1..Len(rows) |-> from_orm(PostDB, rows[i])]
    IN  Out(d, JSON(200, "list", results))

\* the HTTPException a failed dependency raises
NotFound(d) == Out(d, HTTPException(404, "Not Found"))

get_posts_backend(d, post) ==
    Out(d, JSON(200, "post", response_model(PostDB, post)))

create_post_backend(d, post) ==
    LET post_id == autoincrement(d.posts, d.post_seq)
        d1 == insert_post(d, post, post_id)
        post_db == get_post_or_404_backend(d1, post_id)
    IN  IF ~post_db.found THEN NotFound(d1)
        ELSE Out(d1, JSON(201, "post", response_model(PostDB, post_db.post)))

\* post is what Depends(get_post_or_404) loaded before the body runs
update_post_backend(d, post, post_update) ==
    LET d1 == update_values(d, post.id, post_update)
        post_db == get_post_or_404_backend(d1, post.id)
    IN  IF ~post_db.found THEN NotFound(d1)
        ELSE Out(d1, JSON(200, "post", response_model(PostDB, post_db.post)))

delete_post_backend(d, post) == Out(delete_row(d, post.id), NoContent)

\* create_comment without its lookup of the post
post_is_none_unchecked(d, post_id) == FALSE

\* create_comment up to its first await: is the post there?
post_is_none(d, post_id) == \A p \in d.posts : p.id # post_id

BadRequest(d) == Out(d, HTTPException(400, "Post does not exist"))

\* create_comment from the insert on
insert_comment_backend(d, comment) ==
    LET comment_id == autoincrement(d.comments, d.comment_seq)
        d1 == insert_comment(d, comment, comment_id)
        raw_comment == CHOOSE c \in d1.comments : c.id = comment_id
    IN  Out(d1, JSON(201, "comment",
                     response_model(CommentDB, from_orm(CommentDB, raw_comment))))

create_comment_backend(d, comment) ==
    IF post_is_none(d, comment.post_id) THEN BadRequest(d)
    ELSE insert_comment_backend(d, comment)

(***************************************************************************)
(* tortoise/app.py                                                         *)
(***************************************************************************)
pagination_tortoise(skip, limit) ==
    LET capped_limit == Min(100, limit) IN <<skip, capped_limit>>

\* PostTortoise.get(id=id).prefetch_related("comments")
get_post_or_404_tortoise(d, id) ==
    IF \A p \in d.posts : p.id # id
    THEN [found |-> FALSE, post |-> [id |-> id]]
    ELSE LET row == CHOOSE p \in d.posts : p.id = id
             related == SeqById({c \in d.comments : c.post_id = id})
         IN  [found |-> TRUE,
              post |-> [f \in PostPublic |->
                           IF f = "comments" THEN related ELSE row[f]]]

\* post.update_from_dict(values): set the named attributes of the entity
update_from_dict(post, values) ==
    [f \in DOMAIN post |-> IF f \in DOMAIN values THEN values[f] ELSE post[f]]

\* await post.save(): UPDATE posts SET every column of the entity WHERE id
save(d, post) ==
    update_values(d, post.id, [title |-> post.title, content |-> post.content,
                               publication_date |-> post.publication_date])

list_posts_tortoise(d, pagination) ==
    LET skip == pagination[1]
        limit == pagination[2]
        posts == offset_limit(d.posts, skip, limit)
        results == [i \in 1..Len(posts) |-> from_orm(PostDB, posts[i])]
    IN  Out(d, JSON(200, "list", results))

get_post_tortoise(d, post) ==
    Out(d, JSON(200, "post", response_model(PostDB, from_orm(PostDB, post))))

create_post_tortoise(d, post) ==
    LET id == generated_id(d.posts, d.post_seq)
        d1 == insert_post(d, post, id)
        post_tortoise == [id |-> id, title |-> post.title, content |-> post.content,
                          publication_date |-> post.publication_date]
    IN  Out(d1, JSON(201, "post",
                     response_model(PostDB, from_orm(PostDB, post_tortoise))))

\* post is the entity Depends(get_post_or_404) loaded before the body runs
update_post_tortoise(d, post, post_update) ==
    LET updated == update_from_dict(post, post_update)
    IN  Out(save(d, updated),
            JSON(200, "post", response_model(PostDB, from_orm(PostDB, updated))))

delete_post_tortoise(d, post) == Out(delete_cascade(d, post.id), NoContent)

\* PostTortoise.get(id=comment.post_id) raises DoesNotExist
DoesNotExist(d, post_id) == \A p \in d.posts : p.id # post_id

\* create_comment from CommentTortoise.create on; the store enforces the
\* foreign key, and register_tortoise(add_exception_handlers=True) answers an
\* IntegrityError with 422
create_tortoise(d, comment) ==
    IF \A p \in d.posts : p.id # comment.post_id
    THEN Out(d, HTTPException(422, "IntegrityError"))
    ELSE LET id == generated_id(d.comments, d.comment_seq)
             d1 == insert_comment(d, comment, id)
             comment_tortoise == [id |-> id, post_id |-> comment.post_id,
                                  content |-> comment.content,
                                  publication_date |-> comment.publication_date]
         IN  Out(d1, JSON(201, "comment",
                          response_model(CommentDB, from_orm(CommentDB, comment_tortoise))))

create_comment_tortoise(d, comment) ==
    IF DoesNotExist(d, comment.post_id) THEN BadRequest(d)
    ELSE create_tortoise(d, comment)

(***************************************************************************)
(* One request, routed and handled by server v                             *)
(***************************************************************************)
NoPage == <<-1, -1>>

\* the pagination dependency of list_posts, behind its Query(ge=0) checks
paginate(v, query) ==
    IF ~(Query_ge0(query.skip) /\ Query_ge0(query.limit)) THEN NoPage
    ELSE IF v = "backend" THEN pagination_backend(query.skip, query.limit)
    ELSE pagination_tortoise(query.skip, query.limit)

path_id(req) == req.path[Len(req.path)].n

\* Depends(get_post_or_404) of server v
get_post_or_404(v, d, id) ==
    IF v = "backend" THEN get_post_or_404_backend(d, id)
    ELSE get_post_or_404_tortoise(d, id)

serve(v, d, req, now) ==
    LET endpoint == dispatch(routes(v), req.method, req.path)
        post == get_post_or_404(v, d, path_id(req))
    IN  CASE endpoint = "404" -> Out(d, HTTPException(404, "Not Found"))
          [] endpoint = "405" -> Out(d, HTTPException(405, "Method Not Allowed"))
          [] endpoint = "list_posts" ->
                IF paginate(v, req.query) = NoPage
                THEN Out(d, HTTPException(422, "value is not a valid integer >= 0"))
                ELSE IF v = "backend"
                     THEN list_posts_backend(d, paginate(v, req.query))
                     ELSE list_posts_tortoise(d, paginate(v, req.query))
          [] endpoint = "get_posts" ->
                IF ~post.found THEN NotFound(d) ELSE get_posts_backend(d, post.post)
          [] endpoint = "get_post" ->
                IF ~post.found THEN NotFound(d) ELSE get_post_tortoise(d, post.post)
          [] endpoint = "create_post" ->
                IF v = "backend" THEN create_post_backend(d, PostCreate(req.body, now))
                ELSE create_post_tortoise(d, PostCreate(req.body, now))
          [] endpoint = "update_post" ->
                IF ~post.found THEN NotFound(d)
                ELSE IF v = "backend"
                THEN update_post_backend(d, post.post, PostPartialUpdate(req.body))
                ELSE update_post_tortoise(d, post.post, PostPartialUpdate(req.body))
          [] endpoint = "delete_post" ->
                IF ~post.found THEN NotFound(d)
                ELSE IF v = "backend" THEN delete_post_backend(d, post.post)
                ELSE delete_post_tortoise(d, post.post)
          [] endpoint = "create_comment" ->
                IF v = "backend"
                THEN create_comment_backend(d, CommentCreate(req.body, now))
                ELSE create_comment_tortoise(d, CommentCreate(req.body, now))

(***************************************************************************)
(* Requests                                                                *)
(***************************************************************************)
NoQuery == [skip |-> 0, limit |-> 10]
NoBody == [kind |-> "none"]

Request(method, path, query, body) ==
    [method |-> method, path |-> path, query |-> query, body |-> body]

PostsPath == <<Slash, Lit("posts")>>
PostPath(id) == <<Slash, Lit("posts"), Slash, Seg(id)>>
CommentsPath == <<Slash, Lit("comments")>>

\* PATCH bodies: title and/or content present (at least one)
PartialUpdates ==
    {[title |-> t] : t \in Titles} \cup {[content |-> c] : c \in Contents}
    \cup {[title |-> t, content |-> c] : t \in Titles, c \in Contents}

Ids(rows) == {r.id : r \in rows}

\* the ids storage has handed out, extended by the rows a step created
Issue(v, d1) ==
    [posts |-> issued[v].posts \cup (Ids(d1.posts) \ Ids(db[v].posts)),
     comments |-> issued[v].comments \cup (Ids(d1.comments) \ Ids(db[v].comments))]

\* both servers receive req and answer it, each from its own store
Send(req, now) ==
    \E b \in {serve("backend", db["backend"], req, now)},
       t \in {serve("tortoise", db["tortoise"], req, now)} :
    LET out == [v \in Variants |-> IF v = "backend" THEN b ELSE t]
    IN  /\ request' = req
        /\ db' = [v \in Variants |-> out[v].db]
        /\ response' = [v \in Variants |-> out[v].resp]
        /\ page' = [v \in Variants |->
                      IF dispatch(routes(v), req.method, req.path) = "list_posts"
                      THEN paginate(v, req.query) ELSE NoPage]
        /\ issued' = [v \in Variants |-> Issue(v, out[v].db)]
        /\ UNCHANGED inflight

Idle == inflight = {}

ListPosts ==
    /\ Idle
    /\ \E skip \in {0, 1}, limit \in {1, 10} :
          Send(Request("GET", PostsPath, [skip |-> skip, limit |-> limit], NoBody), Now)

GetPost ==
    /\ Idle
    /\ \E id \in PostIds : Send(Request("GET", PostPath(id), NoQuery, NoBody), Now)

CreatePost ==
    /\ Idle
    /\ \A v \in Variants : db[v].post_seq < MaxPosts
    /\ \E t \in Titles, c \in Contents, date \in (Dates \ {Now}) \cup {Unset} :
          Send(Request("POST", PostsPath, NoQuery,
                       [title |-> t, content |-> c, publication_date |-> date]), Now)

UpdatePost ==
    /\ Idle
    /\ \E id \in PostIds, body \in PartialUpdates :
          Send(Request("PATCH", PostPath(id), NoQuery, body), Now)

DeletePost ==
    /\ Idle
    /\ \E id \in PostIds : Send(Request("DELETE", PostPath(id), NoQuery, NoBody), Now)

CreateComment ==
    /\ Idle
    /\ \A v \in Variants : db[v].comment_seq < MaxComments
    /\ \E post_id \in PostIds, c \in CommentContents, date \in {Unset} :
          Send(Request("POST", CommentsPath, NoQuery,
                       [post_id |-> post_id, content |-> c, publication_date |-> date]),
               Now)

NoRequest == Request("NONE", <<Slash>>, NoQuery, NoBody)
NoResponse == [status |-> 0, body |-> [kind |-> "none", value |-> ""]]

Init ==
    /\ db = [v \in Variants |-> EmptyDB]
    /\ request = NoRequest
    /\ response = [v \in Variants |-> NoResponse]
    /\ page = [v \in Variants |-> NoPage]
    /\ issued = [v \in Variants |-> [posts |-> {}, comments |-> {}]]
    /\ inflight = {}

Next ==
    \/ ListPosts
    \/ GetPost
    \/ CreatePost
    \/ UpdatePost
    \/ DeletePost
    \/ CreateComment

Spec == Init /\ [][Next]_vars

(***************************************************************************)
(* Interleaved handling.  A handler runs up to its next await and the      *)
(* event loop may then run another request's step.  A task is a request    *)
(* whose dependency (or first lookup) has completed and whose write is     *)
(* still to be issued.  The two servers share nothing, so a run sends its  *)
(* traffic to one of them and leaves the other's store empty.              *)
(***************************************************************************)
Task(v, op, req, post, body) ==
    [v |-> v, op |-> op, req |-> req, post |-> post, body |-> body]

\* PATCH bodies naming one field
RacedUpdates == {u \in PartialUpdates : Cardinality(DOMAIN u) = 1}

Other(v) == CHOOSE w \in Variants : w # v

Serving(v) ==
    /\ db[Other(v)] = EmptyDB
    /\ \A t \in inflight : t.v = v

\* server v's store and answer after a step of the handler of req
Step(v, req, out) ==
    /\ request' = req
    /\ db' = [db EXCEPT ![v] = out.db]
    /\ response' = [response EXCEPT ![v] = out.resp]
    /\ issued' = [issued EXCEPT ![v] = Issue(v, out.db)]
    /\ UNCHANGED page

\* POST /posts: one INSERT
PostToOne(v) ==
    /\ Serving(v)
    /\ db[v].post_seq < MaxRacedPosts
    /\ \E t \in Titles, c \in Contents :
          LET req == Request("POST", PostsPath, NoQuery,
                             [title |-> t, content |-> c, publication_date |-> Unset])
          IN  /\ Step(v, req, serve(v, db[v], req, Now))
              /\ UNCHANGED inflight

\* PATCH /posts/{id}: Depends(get_post_or_404) has run, the body has not
BeginUpdate(v) ==
    /\ Serving(v)
    /\ Cardinality(inflight) < MaxInflight
    /\ \E id \in 1..(MaxRacedPosts + 1), body \in RacedUpdates :
          LET req == Request("PATCH", PostPath(id), NoQuery, body)
              post == get_post_or_404(v, db[v], id)
          IN  IF ~post.found
              THEN Step(v, req, NotFound(db[v])) /\ UNCHANGED inflight
              ELSE /\ inflight' = inflight \cup
                          {Task(v, "update_post", req, post.post, PostPartialUpdate(body))}
                   /\ UNCHANGED <<db, request, response, page, issued>>

\* the body of update_post: the write and the answer
FinishUpdate(v) ==
    \E t \in inflight :
       /\ t.v = v /\ t.op = "update_post"
       /\ Step(v, t.req, IF v = "backend"
                         THEN update_post_backend(db[v], t.post, t.body)
                         ELSE update_post_tortoise(db[v], t.post, t.body))
       /\ inflight' = inflight \ {t}

\* DELETE /posts/{id}: Depends(get_post_or_404) has run, the body has not
BeginDelete(v) ==
    /\ Serving(v)
    /\ Cardinality(inflight) < MaxInflight
    /\ \E id \in 1..(MaxRacedPosts + 1) :
          LET req == Request("DELETE", PostPath(id), NoQuery, NoBody)
              post == get_post_or_404(v, db[v], id)
          IN  IF ~post.found
              THEN Step(v, req, NotFound(db[v])) /\ UNCHANGED inflight
              ELSE /\ inflight' = inflight \cup
                          {Task(v, "delete_post", req, post.post, NoBody)}
                   /\ UNCHANGED <<db, request, response, page, issued>>

FinishDelete(v) ==
    \E t \in inflight :
       /\ t.v = v /\ t.op = "delete_post"
       /\ Step(v, t.req, IF v = "backend" THEN delete_post_backend(db[v], t.post)
                         ELSE delete_post_tortoise(db[v], t.post))
       /\ inflight' = inflight \ {t}

\* POST /comments: the lookup of the post has run, the insert has not
BeginComment(v) ==
    /\ Serving(v)
    /\ Cardinality(inflight) < MaxInflight
    /\ db[v].comment_seq + Cardinality({t \in inflight : t.op = "create_comment"})
          < MaxComments
    /\ \E post_id \in 1..(MaxRacedPosts + 1), c \in CommentContents :
          LET body == [post_id |-> post_id, content |-> c, publication_date |-> Unset]
              req == Request("POST", CommentsPath, NoQuery, body)
          IN  IF (IF v = "backend" THEN post_is_none(db[v], post_id)
                  ELSE DoesNotExist(db[v], post_id))
              THEN Step(v, req, BadRequest(db[v])) /\ UNCHANGED inflight
              ELSE /\ inflight' = inflight \cup
                          {Task(v, "create_comment", req, [id |-> post_id],
                                CommentCreate(body, Now))}
                   /\ UNCHANGED <<db, request, response, page, issued>>

FinishComment(v) ==
    \E t \in inflight :
       /\ t.v = v /\ t.op = "create_comment"
       /\ Step(v, t.req, IF v = "backend" THEN insert_comment_backend(db[v], t.body)
                         ELSE create_tortoise(db[v], t.body))
       /\ inflight' = inflight \ {t}

NextInterleaved ==
    \E v \in Variants :
       \/ PostToOne(v)
       \/ BeginUpdate(v)
       \/ FinishUpdate(v)
       \/ BeginDelete(v)
       \/ FinishDelete(v)
       \/ BeginComment(v)
       \/ FinishComment(v)

SpecInterleaved == Init /\ [][NextInterleaved]_vars

(***************************************************************************)
(* The pagination dependency on its own, over the whole input range        *)
(***************************************************************************)
Paginate ==
    /\ Idle
    /\ \E skip \in (-1)..MaxSkip, limit \in (-1)..MaxLimit :
          Send(Request("GET", PostsPath, [skip |-> skip, limit |-> limit], NoBody), Now)

SpecPagination == Init /\ [][Paginate]_vars

(***************************************************************************)
(* Properties                                                              *)
(***************************************************************************)
IsListPosts(req) == req.method = "GET" /\ req.path = PostsPath
IsGetPost(req) == req.method = "GET" /\ Len(req.path) = Len(PostPath(1))
IsCreatePost(req) == req.method = "POST" /\ req.path = PostsPath
IsUpdatePost(req) == req.method = "PATCH"
IsCreateComment(req) == req.method = "POST" /\ req.path = CommentsPath

Stored(v, id) == \E p \in db[v].posts : p.id = id
PostRow(d, id) == CHOOSE p \in d.posts : p.id = id
Range(seq) == {seq[i] : i \in 1..Len(seq)}

\* C1: for skip >= 0 and limit >= 0 the pagination dependency of either
\* server returns skip unchanged, 100 when limit > 100, and limit itself
\* when limit is in 0..100
C1_PaginationCapsLimit ==
    \A v \in Variants :
       (/\ IsListPosts(request)
        /\ request.query.skip >= 0
        /\ request.query.limit >= 0)
       => /\ page[v][1] = request.query.skip
          /\ request.query.limit > 100 => page[v][2] = 100
          /\ request.query.limit <= 100 => page[v][2] = request.query.limit

C1_Witness ==
    /\ IsListPosts(request)
    /\ request.query.skip > 0
    /\ request.query.limit > 101
    /\ \A v \in Variants : page[v] = <<request.query.skip, 100>>

C3_CreateThenGet ==
    [][\A v \in Variants :
          (/\ IsCreatePost(request)
           /\ response[v].status = 201
           /\ IsGetPost(request')
           /\ path_id(request') = response[v].body.value.id)
          => /\ response'[v].status = 200
             /\ response'[v].body.value.title = request.body.title
             /\ response'[v].body.value.content = request.body.content
             /\ request.body.publication_date # Unset
                   => response'[v].body.value.publication_date
                         = request.body.publication_date
             /\ "comments" \in DOMAIN response'[v].body.value
             /\ response'[v].body.value.comments = <<>>]_vars

\* C4: GET /posts/{id} of a stored post answers with a comments collection
\* holding exactly the stored comments whose post_id is id
C4_GetPostCarriesComments ==
    \A v \in Variants :
       (IsGetPost(request) /\ Stored(v, path_id(request)))
       => /\ response[v].status = 200
          /\ "comments" \in DOMAIN response[v].body.value
          /\ Range(response[v].body.value.comments)
                = {c \in db[v].comments : c.post_id = path_id(request)}

\* C5: a PATCH /posts/{id} of a stored post sets the fields its body carries
\* and nothing else: an absent title or content keeps its value, the post's
\* id and publication_date, every other post and all comments are unchanged
C5_PartialUpdateFrame ==
    [][\A v \in Variants :
          (IsUpdatePost(request') /\ Stored(v, path_id(request')))
          => LET id == path_id(request')
                 old == PostRow(db[v], id)
                 body == request'.body
             IN  /\ response'[v].status = 200
                 /\ \E new \in db'[v].posts :
                       /\ new.id = id
                       /\ new.publication_date = old.publication_date
                       /\ new.title = IF "title" \in DOMAIN body
                                      THEN body.title ELSE old.title
                       /\ new.content = IF "content" \in DOMAIN body
                                        THEN body.content ELSE old.content
                       /\ db'[v].posts \ {new} = db[v].posts \ {old}
                 /\ db'[v].comments = db[v].comments]_vars

C5_Witness ==
    /\ IsUpdatePost(request)
    /\ DOMAIN request.body = {"title"}
    /\ \A v \in Variants :
          /\ response[v].status = 200
          /\ Cardinality(db[v].posts) = 2
          /\ db[v].comments # {}
          /\ PostRow(db[v], path_id(request)).title = request.body.title
          /\ PostRow(db[v], path_id(request)).content = "y"
          /\ PostRow(db[v], path_id(request)).publication_date # Now

\* C6: GET /posts/{id} answers 404 whenever no post with that id is stored,
\* whether it was deleted or never created
C6_AbsentPostIs404 ==
    \A v \in Variants :
       (IsGetPost(request) /\ ~Stored(v, path_id(request)))
       => response[v].status = 404

SameResponse(r1, r2) ==
    /\ r1.status = r2.status
    /\ r1.body.kind = r2.body.kind
    /\ r1.body.value = r2.body.value

\* C7: driven by the same requests from the same start, the two servers give
\* the same status and body at every step and hold the same posts and comments
C7_VariantsAgree ==
    /\ SameResponse(response["backend"], response["tortoise"])
    /\ db["backend"].posts = db["tortoise"].posts
    /\ db["backend"].comments = db["tortoise"].comments

\* C8: every stored comment's post_id is the id of a stored post
C8_ForeignKey ==
    \A v \in Variants : \A c \in db[v].comments : Stored(v, c.post_id)

C10_NoStaleWriteBack ==
    [][\A v \in Variants : \A old \in db[v].posts : \A new \in db'[v].posts :
          old.id = new.id
          => \A f \in {"title", "content"} :
                old[f] # new[f]
                => \E t \in inflight \ inflight' :
                      /\ t.v = v
                      /\ t.op = "update_post"
                      /\ t.post.id = old.id
                      /\ f \in DOMAIN t.body
                      /\ new[f] = t.body[f]]_vars

====
